---- MODULE Spec2Model ----
(***************************************************************************)
(* Pyedra: the HG1G2 fit pipeline (pyedra/hg1g2_model.py) and the          *)
(* observation counter and plot dispatcher (pyedra/core.py).               *)
(*                                                                         *)
(* An observation set (a pandas DataFrame with columns id, alpha, v) is a  *)
(* sequence of records [id, alpha, v].  Floating point cells are extended  *)
(* numbers [k, n, d]: k = "fin" stands for the quotient n/d, and "pinf",   *)
(* "ninf", "nan" are the IEEE values numpy produces instead of raising.    *)
(* Magnitudes v are held in tenths of a magnitude, so that the flux        *)
(* 10 ** (-0.4 * v) is an integer for the values used.                     *)
(***************************************************************************)
EXTENDS Integers, Sequences, FiniteSets, TLC

VARIABLES
    df,        \* the caller's observation set, the argument of HG1G2_fit / obs_counter
    pc,        \* position of the caller / of the running function
    obs,       \* obs_counter's threshold argument of the last direct call
    out,       \* value returned by the last direct obs_counter call
    noob,      \* HG1G2_fit: df.drop_duplicates(subset="id", keep="first")
    size,      \* HG1G2_fit: len(noob)
    columns,   \* HG1G2_fit: the eight np.empty(size) column arrays, slot by slot
    written,   \* number of times the loop stored into each slot of the columns
    idx,       \* HG1G2_fit: loop index of enumerate(noob.id)
    data,      \* HG1G2_fit: df[df["id"] == id]
    fi1, fi2, fi3,  \* HG1G2_fit: the basis vectors
    v_fit,     \* HG1G2_fit: 10 ** (-0.4 * v)
    solved,    \* what optimization.curve_fit did for each id it was called for
    loads,     \* number of calls of datasets.load_penttila2016()
    built,     \* number of scipy.interpolate.interp1d objects constructed
    result,    \* the PyedraFitDataFrame returned by HG1G2_fit, or None
    err,       \* the exception that left HG1G2_fit / curvefit, or None
    pdf,       \* curvefit: its df argument
    ax,        \* curvefit: the matplotlib axis it draws on
    pidx       \* curvefit: loop index of self.model_df.iterrows()

vars == <<df, pc, obs, out, noob, size, columns, written, idx, data, fi1, fi2, fi3,
          v_fit, solved, loads, built, result, err, pdf, ax, pidx>>

fitLocals == <<noob, size, columns, written, idx, data, fi1, fi2, fi3, v_fit, solved>>
plotLocals == <<pdf, ax, pidx>>

(***************************************************************************)
(* Bounds of the model.                                                    *)
(***************************************************************************)
MaxLen == 6
MaxObs == 3

None == [k |-> "none"]

(***************************************************************************)
(* Extended numbers: what numpy float64 arithmetic yields.                 *)
(***************************************************************************)
Fin(n, d) == [k |-> "fin", n |-> n, d |-> d]
PInf == [k |-> "pinf", n |-> 0, d |-> 1]
NInf == [k |-> "ninf", n |-> 0, d |-> 1]
NaN == [k |-> "nan", n |-> 0, d |-> 1]

IsFinite(x) == x.k = "fin"

\* x >= 0 as numpy evaluates it (False for nan).
NonNegative(x) ==
    \/ x.k = "pinf"
    \/ x.k = "fin" /\ ((x.n >= 0 /\ x.d > 0) \/ (x.n <= 0 /\ x.d < 0))

\* (c * x) ** 2 for an integer c and an extended x >= 0 with d = 1.
SqMul(c, x) ==
    CASE x.k = "fin" -> Fin((c * x.n) * (c * x.n), 1)
      [] x.k = "nan" -> NaN
      [] OTHER -> IF c = 0 THEN NaN ELSE PInf

\* x + y for extended x, y >= 0 with d = 1.
Add(x, y) ==
    CASE x.k = "nan" \/ y.k = "nan" -> NaN
      [] x.k = "pinf" \/ y.k = "pinf" -> PInf
      [] OTHER -> Fin(x.n + y.n, 1)

\* x / s for an extended x >= 0 with d = 1 and an integer s: numpy division,
\* which warns and yields inf or nan where the divisor is zero.
Div(x, s) ==
    CASE x.k = "nan" -> NaN
      [] s = 0 -> IF x.k = "fin" /\ x.n = 0 THEN NaN ELSE PInf
      [] x.k = "pinf" -> IF s > 0 THEN PInf ELSE NInf
      [] OTHER -> Fin(x.n, s)

\* a / s for integers a and s.
DivInt(a, s) ==
    CASE s # 0 -> Fin(a, s)
      [] a = 0 -> NaN
      [] a > 0 -> PInf
      [] OTHER -> NInf

\* np.sqrt of a diagonal element of the covariance (a perfect square or inf).
ISqrt(n) == CHOOSE r \in 0..n : r * r = n
Sqrt(x) == IF x.k = "fin" THEN Fin(ISqrt(x.n), 1) ELSE x

(***************************************************************************)
(* The reference table of datasets.load_penttila2016(): columns alpha,     *)
(* phi1, phi2, phi3, sorted ascending by alpha.  Three knots, with basis   *)
(* values scaled so that linear interpolation between knots is integral.   *)
(***************************************************************************)
penttila2016 ==
    [alpha |-> <<0, 2, 4>>,
     phi1  |-> <<4, 2, 0>>,
     phi2  |-> <<4, 4, 2>>,
     phi3  |-> <<4, 0, 0>>]

\* scipy.interpolate.interp1d(x, y), kind="linear", bounds_error=True:
\* the interpolant is the pair of arrays it was built from.
interp1d(x, y) == [x |-> x, y |-> y]

\* An interpolant built with fill_value="extrapolate": outside the range it
\* answers with the value at the nearest end.
interp1d_call_extrapolate(f, x_new) ==
    IF x_new < f.x[1] THEN [ok |-> TRUE, y |-> f.y[1]]
    ELSE IF x_new > f.x[Len(f.x)] THEN [ok |-> TRUE, y |-> f.y[Len(f.y)]]
    ELSE LET hi == IF x_new = f.x[1] THEN 2
                   ELSE CHOOSE i \in 2..Len(f.x) : f.x[i - 1] < x_new /\ x_new <= f.x[i]
             lo == hi - 1
         IN [ok |-> TRUE,
             y |-> f.y[lo] + ((x_new - f.x[lo]) * (f.y[hi] - f.y[lo])) \div (f.x[hi] - f.x[lo])]

\* Calling an interpolant at x_new: ValueError outside [x[0], x[-1]], else the
\* value on the segment between the two bracketing knots.
interp1d_call(f, x_new) ==
    IF x_new < f.x[1] \/ x_new > f.x[Len(f.x)]
    THEN [ok |-> FALSE, y |-> 0]
    ELSE LET hi == IF x_new = f.x[1] THEN 2
                   ELSE CHOOSE i \in 2..Len(f.x) : f.x[i - 1] < x_new /\ x_new <= f.x[i]
             lo == hi - 1
             slope_n == f.y[hi] - f.y[lo]
             slope_d == f.x[hi] - f.x[lo]
         IN [ok |-> TRUE, y |-> f.y[lo] + ((x_new - f.x[lo]) * slope_n) \div slope_d]

(***************************************************************************)
(* pandas helpers used by the code.                                        *)
(***************************************************************************)
\* The ids of a frame, as a set.
IdsOf(d) == {d[i].id : i \in DOMAIN d}

\* The rows with that id, sorted by alpha (descending).
RECURSIVE SortByAlpha(_)
SortByAlpha(d) ==
    IF d = <<>> THEN <<>>
    ELSE LET m == CHOOSE i \in DOMAIN d : \A j \in DOMAIN d : d[j].alpha <= d[i].alpha
         IN <<d[m]>> \o SortByAlpha([j \in 1..(Len(d) - 1) |-> IF j < m THEN d[j] ELSE d[j + 1]])

SelectById_sorted(d, id) == SortByAlpha(SelectSeq(d, LAMBDA r : r.id = id))

\* df[df["id"] == id]: the rows with that id, in their original order.
SelectById(d, id) == SelectSeq(d, LAMBDA r : r.id = id)

\* An ascending sequence of the elements of a finite set of integers
\* (groupby sorts the group keys).
RECURSIVE SortedSeq(_)
SortedSeq(S) ==
    IF S = {} THEN <<>>
    ELSE LET m == CHOOSE x \in S : \A y \in S : x <= y
         IN <<m>> \o SortedSeq(S \ {m})

\* df.groupby("id").count().alpha: per id, the number of its rows.
GroupCount(d, id) == Len(SelectById(d, id))

\* obs_counter with "<=" in place of "<".
obs_counter_le(d, o) ==
    SelectSeq(SortedSeq(IdsOf(d)), LAMBDA id : GroupCount(d, id) <= o)

\* core.obs_counter(df, obs)
obs_counter(d, o) ==
    SelectSeq(SortedSeq(IdsOf(d)), LAMBDA id : GroupCount(d, id) < o)

\* df.drop_duplicates(subset="id", keep="first"): a row stays when no earlier
\* row has its id.
RECURSIVE DropFrom(_, _, _)
DropFrom(d, i, seen) ==
    IF i > Len(d) THEN <<>>
    ELSE IF d[i].id \in seen THEN DropFrom(d, i + 1, seen)
    ELSE <<d[i]>> \o DropFrom(d, i + 1, seen \cup {d[i].id})

\* drop_duplicates with keep="last": a row stays when no later row has its id.
RECURSIVE DropLastFrom(_, _)
DropLastFrom(d, i) ==
    IF i > Len(d) THEN <<>>
    ELSE IF \E j \in (i + 1)..Len(d) : d[j].id = d[i].id THEN DropLastFrom(d, i + 1)
    ELSE <<d[i]>> \o DropLastFrom(d, i + 1)

drop_duplicates_last(d) == DropLastFrom(d, 1)

drop_duplicates(d) == DropFrom(d, 1, {})

\* str(idx) of an id, and " - ".join(str(idx) for idx in lt) as its pieces.
Digit(n) == <<"0", "1", "2", "3", "4", "5", "6", "7", "8", "9">>[n + 1]

RECURSIVE Str(_)
Str(n) == IF n < 10 THEN <<Digit(n)>> ELSE Str(n \div 10) \o <<Digit(n % 10)>>

RECURSIVE Join(_, _)
Join(sep, parts) ==
    IF parts = <<>> THEN <<>>
    ELSE IF Len(parts) = 1 THEN parts[1]
    ELSE parts[1] \o <<sep>> \o Join(sep, Tail(parts))

lt_str(lt) == Join(" - ", [i \in DOMAIN lt |-> Str(lt[i])])

\* The ValueError of HG1G2_fit.
InsufficientObservations(lt) ==
    [k |-> "ValueError",
     msg |-> <<"Some asteroids has less than 3 observations: ">> \o lt_str(lt)]

OutOfDomain == [k |-> "ValueError", msg |-> <<"A value in x_new is out of the interpolation range.">>]
SolverFailure == [k |-> "RuntimeError", msg |-> <<"Optimal parameters not found">>]

(***************************************************************************)
(* Numeric steps of the loop body.                                         *)
(***************************************************************************)
RECURSIVE Pow10(_)
Pow10(e) == IF e = 0 THEN 1 ELSE 10 * Pow10(e - 1)

\* 10 ** (-0.4 * v), v in tenths of a magnitude (a multiple of 25, v <= 0).
Flux(v) == Pow10((-v) \div 25)

RECURSIVE Sum(_)
Sum(s) == IF s = <<>> THEN 0 ELSE Head(s) + Sum(Tail(s))

\* _HG1G2_model((x, y, z), a, b, c)
HG1G2_model(x, y, z, a, b, c) == [j \in DOMAIN x |-> a * x[j] + b * y[j] + c * z[j]]

\* -2.5 * np.log10(a + b + c); a fin cell stands for -2.5 * log10(n).
H_1_2(a, b, c) ==
    CASE a + b + c > 0 -> Fin(a + b + c, 1)
      [] a + b + c = 0 -> PInf
      [] OTHER -> NaN

\* 1.0857362 * np.sqrt(error_a ** 2 + error_b ** 2 + error_c ** 2) / (a + b + c);
\* a fin cell stands for 1.0857362 * sqrt(n) / d.
error_H_1_2(a, b, c, ea, eb, ec) ==
    Div(Add(Add(SqMul(1, ea), SqMul(1, eb)), SqMul(1, ec)), a + b + c)

\* A division guarded against a zero sum: 0 in place of inf or nan.
G_1_guarded(a, b, c) == IF a + b + c = 0 THEN Fin(0, 1) ELSE DivInt(a, a + b + c)

\* a / (a + b + c)
G_1(a, b, c) == DivInt(a, a + b + c)

\* np.sqrt(((b + c) * error_a) ** 2 + (a * error_b) ** 2 + (a * error_c) ** 2)
\*    / ((a + b + c) ** 2); a fin cell stands for sqrt(n) / d.
error_G_1(a, b, c, ea, eb, ec) ==
    Div(Add(Add(SqMul(b + c, ea), SqMul(a, eb)), SqMul(a, ec)),
        (a + b + c) * (a + b + c))

\* b / (a + b + c)
G_2(a, b, c) == DivInt(b, a + b + c)

\* np.sqrt((b * error_a) ** 2 + ((a + c) * error_b) ** 2 + (b * error_c) ** 2)
\*    / ((a + b + c) ** 2)
error_G_2(a, b, c, ea, eb, ec) ==
    Div(Add(Add(SqMul(b, ea), SqMul(a + c, eb)), SqMul(b, ec)),
        (a + b + c) * (a + b + c))

\* ss_res = np.sum(residuals ** 2)
ss_res(target, model) ==
    Sum([j \in DOMAIN target |-> (target[j] - model[j]) * (target[j] - model[j])])

\* ss_tot = np.sum((v_fit - np.mean(v_fit)) ** 2), times len(v_fit) ** 2.
ss_tot(target) ==
    LET n == Len(target)
        s == Sum(target)
    IN Sum([j \in DOMAIN target |-> (n * target[j] - s) * (n * target[j] - s)])

\* r_squared = 1 - (ss_res / ss_tot); a fin cell stands for 1 - n/d.
r_squared(res, tot, n) ==
    LET q == Div(Fin(res * n * n, 1), tot)
    IN CASE q.k = "fin" -> q
         [] q.k = "pinf" -> NInf
         [] OTHER -> NaN

\* The row stored at the end of the loop body (lines 213-243).
FitRow(id, f1, f2, f3, target, op, cov) ==
    LET a == op[1]
        b == op[2]
        c == op[3]
        ea == Sqrt(cov[1])
        eb == Sqrt(cov[2])
        ec == Sqrt(cov[3])
    IN [id |-> id,
        H12 |-> H_1_2(a, b, c),
        error_H12 |-> error_H_1_2(a, b, c, ea, eb, ec),
        G1 |-> G_1(a, b, c),
        error_G1 |-> error_G_1(a, b, c, ea, eb, ec),
        G2 |-> G_2(a, b, c),
        error_G2 |-> error_G_2(a, b, c, ea, eb, ec),
        R |-> r_squared(ss_res(target, HG1G2_model(f1, f2, f3, a, b, c)),
                        ss_tot(target), Len(target))]

(***************************************************************************)
(* Inputs: the observation sets a caller passes, and what the solver       *)
(* (scipy.optimize.curve_fit, a library the code calls) may answer.        *)
(***************************************************************************)
Obs(id, alpha, v) == [id |-> id, alpha |-> alpha, v |-> v]

\* Entity 7 is observed inside the table (alpha 1, 2) and outside it (alpha 5),
\* at two magnitudes; entity 12 at one point inside it.
ObsPool ==
    {Obs(7, 1, 0), Obs(7, 2, -25), Obs(7, 5, 0), Obs(12, 3, 0)}

RECURSIVE SeqsUpTo(_, _)
SeqsUpTo(S, n) ==
    IF n = 0 THEN {<<>>}
    ELSE LET shorter == SeqsUpTo(S, n - 1)
         IN shorter \cup {Append(q, x) : q \in {r \in shorter : Len(r) = n - 1}, x \in S}

Frames == SeqsUpTo(ObsPool, MaxLen)

\* curve_fit either raises RuntimeError or returns the optimum op and the
\* diagonal of its covariance cov (inf where it cannot be estimated).  Every
\* answer is admitted for every entity: a sum a+b+c that is positive, zero or
\* negative, a covariance that is finite or inf.
SolverOutcomes ==
    {[ok |-> FALSE, op |-> <<0, 0, 0>>, cov |-> <<NaN, NaN, NaN>>],
     [ok |-> TRUE, op |-> <<1, 1, 1>>, cov |-> <<Fin(1, 1), Fin(4, 1), Fin(0, 1)>>],
     [ok |-> TRUE, op |-> <<1, 1, 1>>, cov |-> <<PInf, PInf, PInf>>],
     [ok |-> TRUE, op |-> <<1, 0, -1>>, cov |-> <<Fin(1, 1), Fin(1, 1), Fin(1, 1)>>],
     [ok |-> TRUE, op |-> <<0, 1, -2>>, cov |-> <<Fin(1, 1), Fin(1, 1), Fin(1, 1)>>]}

\* The minimum number of observations HG1G2_fit asks obs_counter for.
Threshold == 3

Uninit == [k |-> "uninit"]

\* A fresh matplotlib axis.
BlankAxis ==
    [inverted |-> FALSE, title |-> "", xlabel |-> "", ylabel |-> "",
     lines |-> <<>>, legend |-> FALSE]

Init ==
    /\ df \in Frames
    /\ pc = "start"
    /\ obs = 0
    /\ out = None
    /\ noob = <<>>
    /\ size = 0
    /\ columns = <<>>
    /\ written = <<>>
    /\ idx = 0
    /\ data = <<>>
    /\ fi1 = <<>>
    /\ fi2 = <<>>
    /\ fi3 = <<>>
    /\ v_fit = <<>>
    /\ solved = <<>>
    /\ loads = 0
    /\ built = 0
    /\ result = None
    /\ err = None
    /\ pdf = <<>>
    /\ ax = BlankAxis
    /\ pidx = 0

(***************************************************************************)
(* core.obs_counter called directly by the caller.                         *)
(***************************************************************************)
obs_counter_call ==
    /\ pc = "start"
    /\ \E o \in 0..MaxObs :
        /\ obs' = o
        /\ out' = [k |-> "array", ids |-> obs_counter(df, o)]
    /\ pc' = "counted"
    /\ UNCHANGED <<df, loads, built, result, err>>
    /\ UNCHANGED fitLocals
    /\ UNCHANGED plotLocals

(***************************************************************************)
(* HG1G2_fit.                                                              *)
(***************************************************************************)
\* The gate tripping only on two or more offending ids.
HasOffenders_several(lt) == Len(lt) > 1

\* if len(lt): raise
HasOffenders(lt) == Len(lt) > 0

\* np.empty(size) for the eight columns: slots that hold nothing yet.
np_empty(n) == [i \in 1..n |-> Uninit]

\* Lines 160-187: the gate, the empty columns, the table and the interpolants.
HG1G2_fit_begin ==
    /\ pc = "start"
    /\ LET lt == obs_counter(df, Threshold)
       IN IF HasOffenders(lt)
          THEN /\ pc' = "raised"
               /\ err' = InsufficientObservations(lt)
               /\ UNCHANGED <<noob, size, columns, written, loads, built>>
          ELSE /\ noob' = drop_duplicates(df)
               /\ size' = Len(drop_duplicates(df))
               /\ columns' = np_empty(Len(drop_duplicates(df)))
               /\ written' = [i \in 1..Len(drop_duplicates(df)) |-> 0]
               /\ loads' = loads + 1
               /\ built' = built + 3
               /\ pc' = "loop"
               /\ err' = err
    /\ idx' = 0
    /\ UNCHANGED <<df, obs, out, data, fi1, fi2, fi3, v_fit, solved, result>>
    /\ UNCHANGED plotLocals

y_interp1 == interp1d(penttila2016.alpha, penttila2016.phi1)
y_interp2 == interp1d(penttila2016.alpha, penttila2016.phi2)
y_interp3 == interp1d(penttila2016.alpha, penttila2016.phi3)

\* The inner loop "for alpha_b in data.alpha" from observation j on: the three
\* vectors grow by one value per observation, until an alpha is out of range.
RECURSIVE BasisLoop(_, _, _)
BasisLoop(d, j, acc) ==
    IF j > Len(d) THEN acc
    ELSE LET p1 == interp1d_call(y_interp1, d[j].alpha)
             p2 == interp1d_call(y_interp2, d[j].alpha)
             p3 == interp1d_call(y_interp3, d[j].alpha)
         IN IF ~p1.ok THEN [acc EXCEPT !.ok = FALSE]
            ELSE BasisLoop(d, j + 1,
                           [ok |-> TRUE,
                            fi1 |-> Append(acc.fi1, p1.y),
                            fi2 |-> Append(acc.fi2, p2.y),
                            fi3 |-> Append(acc.fi3, p3.y)])

\* The vectors not emptied at the top of the loop body.
np_array_stale == fi1

\* fi1 = fi2 = fi3 = np.array([])
np_array_empty == <<>>

EmptyBasis == [ok |-> TRUE, fi1 |-> np_array_empty, fi2 |-> np_array_empty, fi3 |-> np_array_empty]

\* data["v"].to_numpy() and 10 ** (-0.4 * v)
FluxOf(d) == [j \in DOMAIN d |-> Flux(d[j].v)]

\* Lines 189-209: select the entity's rows, build the basis vectors and the
\* flux target.
HG1G2_fit_basis ==
    /\ pc = "loop"
    /\ idx < size
    /\ LET id == noob[idx + 1].id
           sel == SelectById(df, id)
           b == BasisLoop(sel, 1, EmptyBasis)
       IN /\ data' = sel
          /\ fi1' = b.fi1
          /\ fi2' = b.fi2
          /\ fi3' = b.fi3
          /\ IF b.ok
             THEN /\ v_fit' = FluxOf(sel)
                  /\ pc' = "solve"
                  /\ err' = err
             ELSE /\ v_fit' = v_fit
                  /\ pc' = "raised"
                  /\ err' = OutOfDomain
    /\ UNCHANGED <<df, obs, out, noob, size, columns, written, idx, solved, loads,
                   built, result>>
    /\ UNCHANGED plotLocals

\* id_column[idx] = id, ..., R_column[idx] = r_squared
StoreRow(cols, i, row) == [cols EXCEPT ![i + 1] = row]

\* Lines 211-243: the solver, the derived parameters and the row.
HG1G2_fit_solve ==
    /\ pc = "solve"
    /\ \E o \in SolverOutcomes :
        /\ solved' = (noob[idx + 1].id :> o) @@ solved
        /\ IF o.ok
           THEN /\ columns' = StoreRow(columns, idx,
                                       FitRow(noob[idx + 1].id, fi1, fi2, fi3, v_fit,
                                              o.op, o.cov))
                /\ written' = [written EXCEPT ![idx + 1] = @ + 1]
                /\ idx' = idx + 1
                /\ pc' = "loop"
                /\ err' = err
           ELSE /\ pc' = "raised"
                /\ err' = SolverFailure
                /\ UNCHANGED <<columns, written, idx>>
    /\ UNCHANGED <<df, obs, out, noob, size, data, fi1, fi2, fi3, v_fit, loads, built,
                   result>>
    /\ UNCHANGED plotLocals

\* Lines 260-268: the arrays and three more interpolants, kept as metadata.
pentilla_cache ==
    [alpha |-> penttila2016.alpha,
     phi1 |-> penttila2016.phi1,
     phi2 |-> penttila2016.phi2,
     phi3 |-> penttila2016.phi3,
     y_interp1 |-> interp1d(penttila2016.alpha, penttila2016.phi1),
     y_interp2 |-> interp1d(penttila2016.alpha, penttila2016.phi2),
     y_interp3 |-> interp1d(penttila2016.alpha, penttila2016.phi3)]

\* Lines 245-273: the table, the plotter, the metadata, the return.
HG1G2_fit_return ==
    /\ pc = "loop"
    /\ idx = size
    /\ result' = [k |-> "PyedraFitDataFrame",
                  model_df |-> columns,
                  metadata |-> pentilla_cache]
    /\ built' = built + 3
    /\ pc' = "returned"
    /\ UNCHANGED <<df, obs, out, loads, err>>
    /\ UNCHANGED fitLocals
    /\ UNCHANGED plotLocals

(***************************************************************************)
(* result.plot(kind, df=...): BasePlot.__call__ and HG1G2Plot.curvefit.    *)
(***************************************************************************)
\* The observation sets a caller plots against: the fitted one, one whose
\* alpha is outside the table, and one of a single, in-range observation.
PlotInputs == {df, <<Obs(7, 5, 0)>>, <<Obs(12, 1, 0)>>}

\* The kind argument: None, the default method's name, a private name.
PlotKinds == {"None", "curvefit", "_curvefit"}

default_plot_kind == "curvefit"

\* kind.startswith("_")
StartsWithUnderscore(kind) == kind \in {"_curvefit"}

InvalidPlotMethod == [k |-> "AttributeError", msg |-> <<"Ivalid plot method">>]

\* Lines 89-101 of core.py, then lines 66-83 of curvefit: the dispatch, the
\* table, three interpolants, the axis decoration.
plot_call ==
    /\ pc = "returned"
    /\ \E kind \in PlotKinds, d \in PlotInputs :
        LET k == IF kind = "None" THEN default_plot_kind ELSE kind
        IN IF StartsWithUnderscore(k)
           THEN /\ pc' = "plot_raised"
                /\ err' = InvalidPlotMethod
                /\ UNCHANGED <<loads, built, pdf, ax, pidx>>
           ELSE /\ pdf' = d
                /\ loads' = loads + 1
                /\ built' = built + 3
                /\ ax' = [ax EXCEPT !.inverted = ~@, !.title = "Phase curves",
                                    !.xlabel = "Phase angle", !.ylabel = "V"]
                /\ pidx' = 0
                /\ pc' = "plotting"
                /\ err' = err
    /\ UNCHANGED <<df, obs, out, result>>
    /\ UNCHANGED fitLocals

\* m_row of self.model_df.iterrows(): a copy of the row.
m_row(model_df, i) == model_df[i + 1]

\* fit_y(m_row.H12, m_row.G1, m_row.G2): the curve is kept as the values it is
\* computed from, d - 2.5 * log10(e * fi1 + f * fi2 + (1 - e - f) * fi3).
fit_y(d, e, f, b) == [d |-> d, e |-> e, f |-> f, fi1 |-> b.fi1, fi2 |-> b.fi2, fi3 |-> b.fi3]

\* Lines 85-115: one row of the table, two lines on the axis.
curvefit_row_draw ==
    /\ pc = "plotting"
    /\ pidx < Len(result.model_df)
    /\ LET row == m_row(result.model_df, pidx)
           sel == SelectById(pdf, row.id)
           b == BasisLoop(sel, 1, EmptyBasis)
       IN IF b.ok
          THEN /\ ax' = [ax EXCEPT !.lines = @ \o
                            << [label |-> <<"Fit", row.id>>,
                                x |-> [j \in DOMAIN sel |-> sel[j].alpha],
                                y |-> fit_y(row.H12, row.G1, row.G2, b)],
                               [label |-> <<"Data", row.id>>,
                                x |-> [j \in DOMAIN sel |-> sel[j].alpha],
                                y |-> [j \in DOMAIN sel |-> sel[j].v]] >>]
               /\ pidx' = pidx + 1
               /\ pc' = pc
               /\ err' = err
          ELSE /\ pc' = "plot_raised"
               /\ err' = OutOfDomain
               /\ UNCHANGED <<ax, pidx>>

\* The loop body storing the row it read back into the table, its H12 replaced
\* by the value just drawn.
curvefit_row_inplace ==
    /\ curvefit_row_draw
    /\ result' = [result EXCEPT !.model_df[pidx + 1].H12 = NaN]
    /\ UNCHANGED <<df, obs, out, loads, built, pdf>>
    /\ UNCHANGED fitLocals

\* The loop body only reads self.model_df and df.
curvefit_row ==
    /\ curvefit_row_draw
    /\ UNCHANGED <<df, obs, out, loads, built, result, pdf>>
    /\ UNCHANGED fitLocals

\* Lines 117-118: the legend, the return.
curvefit_return ==
    /\ pc = "plotting"
    /\ pidx = Len(result.model_df)
    /\ ax' = [ax EXCEPT !.legend = TRUE]
    /\ pc' = "plotted"
    /\ UNCHANGED <<df, obs, out, loads, built, result, err, pdf, pidx>>
    /\ UNCHANGED fitLocals

Next ==
    \/ obs_counter_call
    \/ HG1G2_fit_begin
    \/ HG1G2_fit_basis
    \/ HG1G2_fit_solve
    \/ HG1G2_fit_return
    \/ plot_call
    \/ curvefit_row
    \/ curvefit_return

Spec == Init /\ [][Next]_vars

(***************************************************************************)
(* Vocabulary of the properties.                                           *)
(***************************************************************************)
\* The number of observations of an entity in a frame.
CountOf(d, id) == Cardinality({i \in DOMAIN d : d[i].id = id})

\* The position at which an id first occurs in a frame.
FirstPos(d, id) ==
    CHOOSE i \in DOMAIN d : d[i].id = id /\ \A j \in 1..(i - 1) : d[j].id # id

\* The entities with fewer than n observations.
Offenders(d, n) == {id \in IdsOf(d) : CountOf(d, id) < n}

\* An alpha inside the reference table's range.
InDomain(alpha) ==
    /\ \A i \in DOMAIN penttila2016.alpha : penttila2016.alpha[1] <= penttila2016.alpha[i]
    /\ penttila2016.alpha[1] <= alpha
    /\ \E i \in DOMAIN penttila2016.alpha :
          /\ alpha <= penttila2016.alpha[i]
          /\ \A j \in DOMAIN penttila2016.alpha : penttila2016.alpha[j] <= penttila2016.alpha[i]

AllInDomain(d) == \A i \in DOMAIN d : InDomain(d[i].alpha)

\* HG1G2_fit has returned (the result stays while it is plotted).
Returned == pc \in {"returned", "plotting", "plotted", "plot_raised"}

\* HG1G2_fit is past its first statement.
FitEntered == pc \in {"loop", "solve", "raised"} \/ Returned

\* C1: when every entity has at least 3 observations and every alpha is in the
\* reference domain, HG1G2_fit (unless the solver fails) returns a table with
\* one row per unique id, in the order in which the ids first occur in the
\* input, every slot having been stored into exactly once.
C1_OneRowPerIdInFirstOccurrenceOrder ==
    /\ Returned =>
        LET t == result.model_df
        IN /\ Len(t) = Cardinality(IdsOf(df))
           /\ {t[i].id : i \in DOMAIN t} = IdsOf(df)
           /\ \A i, j \in DOMAIN t :
                 i < j => FirstPos(df, t[i].id) < FirstPos(df, t[j].id)
           /\ \A i \in DOMAIN t : written[i] = 1
    /\ (pc = "raised" /\ Offenders(df, 3) = {} /\ AllInDomain(df)) => err = SolverFailure

C1_Witness ==
    /\ pc = "returned"
    /\ Len(result.model_df) = 2
    /\ result.model_df[1].id = 12
    /\ df[2].id = 7
    /\ df[3].id = 12

\* The numbers a message names: the pieces between the " - " separators, read
\* as decimal numbers.
DigitValue(c) == CHOOSE n \in 0..9 : Digit(n) = c

RECURSIVE NamedIds(_, _, _)
NamedIds(chars, cur, started) ==
    IF chars = <<>> THEN (IF started THEN {cur} ELSE {})
    ELSE IF Head(chars) = " - "
         THEN (IF started THEN {cur} ELSE {}) \cup NamedIds(Tail(chars), 0, FALSE)
         ELSE NamedIds(Tail(chars), 10 * cur + DigitValue(Head(chars)), TRUE)

\* What obs_counter has returned, against the counts of the frame.
C2_Post ==
    pc = "counted" =>
        /\ {out.ids[i] : i \in DOMAIN out.ids} = Offenders(df, obs)
        /\ Cardinality({out.ids[i] : i \in DOMAIN out.ids}) = Len(out.ids)
        /\ \A id \in IdsOf(df) :
              /\ CountOf(df, id) = obs => \A i \in DOMAIN out.ids : out.ids[i] # id
              /\ CountOf(df, id) = obs - 1 => \E i \in DOMAIN out.ids : out.ids[i] = id
        /\ (out.ids = <<>>) <=> (\A id \in IdsOf(df) : CountOf(df, id) >= obs)

\* C2: obs_counter(df, obs) returns exactly the ids with fewer than obs
\* observations (count = obs never, count = obs - 1 always), each once; the
\* result is empty iff every entity has at least obs observations; and the
\* call leaves the observation set unchanged.
C2_ObsCounterExact ==
    [][(C2_Post') /\ (pc' = "counted" => df' = df)]_vars

C2_Witness ==
    /\ pc = "counted"
    /\ obs = 3
    /\ CountOf(df, 7) = 2
    /\ CountOf(df, 12) = 3
    /\ out.ids = <<7>>

\* C3: if some entity has fewer than 3 observations, HG1G2_fit raises before
\* the table is loaded, before an interpolant is built and before an entity is
\* fitted; nothing is returned, and the message names the offending ids and
\* no other.
C3_InsufficientObservationsRaisedFirst ==
    (FitEntered /\ Offenders(df, 3) # {}) =>
        /\ pc = "raised"
        /\ loads = 0
        /\ built = 0
        /\ solved = <<>>
        /\ columns = <<>>
        /\ result = None
        /\ err.k = "ValueError"
        /\ NamedIds(Tail(err.msg), 0, FALSE) = Offenders(df, 3)

C3_Witness ==
    /\ pc = "raised"
    /\ CountOf(df, 12) = 4
    /\ CountOf(df, 7) = 2
    /\ NamedIds(Tail(err.msg), 0, FALSE) = {7}

\* C4: an alpha outside the table's range, or a solver failure, at any entity
\* aborts the whole run: nothing is returned, whatever the position of the
\* entity and however many entities were fitted before it, and the loop never
\* goes on past such an entity.
C4_FatalAbortsBatch ==
    /\ pc = "raised" => result = None
    /\ Returned => (AllInDomain(df) /\ \A id \in IdsOf(df) : solved[id].ok)
    /\ pc \in {"loop", "solve"} =>
          \A i \in DOMAIN noob :
              /\ (i <= idx \/ (i = idx + 1 /\ pc = "solve")) =>
                     AllInDomain(SelectById(df, noob[i].id))
              /\ i <= idx => solved[noob[i].id].ok
    /\ (pc = "raised" /\ err = OutOfDomain) =>
          /\ ~AllInDomain(SelectById(df, noob[idx + 1].id))
          /\ columns[idx + 1] = Uninit

C4_Witness ==
    /\ pc = "raised"
    /\ err = OutOfDomain
    /\ idx = 1
    /\ columns[1] # Uninit

\* What the solver answered for the entity of a row, and the two quantities
\* whose vanishing is degenerate.
SumOf(o) == o.op[1] + o.op[2] + o.op[3]
TotOf(id) == ss_tot([j \in DOMAIN SelectById(df, id) |-> Flux(SelectById(df, id)[j].v)])
CovFinite(o) == \A i \in 1..3 : IsFinite(o.cov[i])
ParamsFinite(row) ==
    /\ IsFinite(row.H12) /\ IsFinite(row.G1) /\ IsFinite(row.G2)
    /\ IsFinite(row.error_H12) /\ IsFinite(row.error_G1) /\ IsFinite(row.error_G2)
ParamsNonFinite(row) ==
    /\ ~IsFinite(row.H12) /\ ~IsFinite(row.G1) /\ ~IsFinite(row.G2)
    /\ ~IsFinite(row.error_H12) /\ ~IsFinite(row.error_G1) /\ ~IsFinite(row.error_G2)

\* C5: a zero a+b+c and a zero total sum of squares never abort the run: the
\* row is stored and the loop goes on, HG1G2_fit returns a row for every
\* entity, the non-finite values are in H12, G1, G2 and their errors (zero sum)
\* or in R (zero total sum of squares) of that row only, and a row of an
\* entity with neither is finite throughout.
C5_DegenerateCasesPropagate ==
    /\ (pc = "raised" /\ idx + 1 \in DOMAIN noob /\ noob[idx + 1].id \in DOMAIN solved) =>
          ~solved[noob[idx + 1].id].ok
    /\ pc \in {"loop", "solve"} => \A i \in 1..idx : columns[i] # Uninit
    /\ Returned =>
          \A i \in DOMAIN result.model_df :
              LET row == result.model_df[i]
                  o == solved[row.id]
              IN /\ row # Uninit
                 /\ SumOf(o) = 0 => ParamsNonFinite(row)
                 /\ (SumOf(o) = 0 /\ TotOf(row.id) # 0) => IsFinite(row.R)
                 /\ TotOf(row.id) = 0 => ~IsFinite(row.R)
                 /\ (TotOf(row.id) = 0 /\ SumOf(o) > 0 /\ CovFinite(o)) => ParamsFinite(row)
                 /\ (SumOf(o) > 0 /\ TotOf(row.id) # 0 /\ CovFinite(o)) =>
                        (ParamsFinite(row) /\ IsFinite(row.R))

C5_Witness ==
    /\ pc = "returned"
    /\ Len(result.model_df) = 2
    /\ SumOf(solved[result.model_df[1].id]) = 0
    /\ TotOf(result.model_df[1].id) # 0
    /\ ~IsFinite(result.model_df[1].G1)
    /\ IsFinite(result.model_df[1].R)
    /\ TotOf(result.model_df[2].id) = 0
    /\ ~IsFinite(result.model_df[2].R)
    /\ ParamsFinite(result.model_df[2])

\* C6: in every row returned by HG1G2_fit, error_H12, error_G1 and error_G2
\* are all >= 0, whatever the fitted triple, a negative a+b+c included.
C6_ErrorsNonNegative ==
    Returned =>
        \A i \in DOMAIN result.model_df :
            /\ NonNegative(result.model_df[i].error_H12)
            /\ NonNegative(result.model_df[i].error_G1)
            /\ NonNegative(result.model_df[i].error_G2)

\* A step of a plot call loads no table and constructs no interpolant.
PlotStepKeepsCounts ==
    pc \in {"returned", "plotting"} => (loads' = loads /\ built' = built)

\* C7: once HG1G2_fit has returned, a plot call neither loads the reference
\* table again nor constructs an interpolant; it uses the cached ones.
C7_PlotReusesCachedInterpolants == [][PlotStepKeepsCounts]_vars

\* A step of a plot call changes no table, no metadata and no observation set.
PlotStepKeepsData ==
    pc \in {"returned", "plotting"} =>
        /\ result' = result
        /\ df' = df
        /\ (pc = "plotting" => pdf' = pdf)
        /\ fitLocals' = fitLocals

\* C8: a plot call, whether it completes or fails part-way, leaves the result
\* table, its metadata and the observation sets unchanged; only the axis (and
\* the call's own position) changes.
C8_PlotLeavesResultsUnchanged == [][PlotStepKeepsData]_vars

C8_Witness ==
    /\ pc = "plot_raised"
    /\ err = OutOfDomain
    /\ Len(ax.lines) = 2
    /\ Len(result.model_df) = 2

\* The positions of an entity's observations in a frame, ascending.
Positions(d, id) == SortedSeq({i \in DOMAIN d : d[i].id = id})

\* y is the linear interpolation of column phi of the table at alpha.
Interpolates(phi, alpha, y) ==
    \E i \in 1..(Len(penttila2016.alpha) - 1) :
        LET x0 == penttila2016.alpha[i]
            x1 == penttila2016.alpha[i + 1]
        IN /\ x0 <= alpha
           /\ alpha <= x1
           /\ y * (x1 - x0) = phi[i] * (x1 - alpha) + phi[i + 1] * (alpha - x0)

\* t is 10 ** (-0.4 * v) for v in tenths of a magnitude: t ** 10 * 10 ** (4v/10) = 1,
\* for the magnitudes observed.
IsFluxOf(t, v) == (v = 0 /\ t = 1) \/ (v = -25 /\ t = 10)

\* C9: when the solver is called for an entity, data is exactly the input rows
\* of that entity in their original order, and fi1, fi2, fi3 and the flux
\* target have one value per observation of the entity, the j-th being the
\* value for its j-th observation; nothing of another entity is in them.
C9_BasisVectorsOfEntityOnly ==
    pc = "solve" =>
        LET id == noob[idx + 1].id
            pos == Positions(df, id)
        IN /\ Len(data) = CountOf(df, id)
           /\ \A j \in DOMAIN data : data[j] = df[pos[j]]
           /\ Len(fi1) = Len(data) /\ Len(fi2) = Len(data) /\ Len(fi3) = Len(data)
           /\ Len(v_fit) = Len(data)
           /\ \A j \in DOMAIN data :
                 /\ Interpolates(penttila2016.phi1, df[pos[j]].alpha, fi1[j])
                 /\ Interpolates(penttila2016.phi2, df[pos[j]].alpha, fi2[j])
                 /\ Interpolates(penttila2016.phi3, df[pos[j]].alpha, fi3[j])
                 /\ IsFluxOf(v_fit[j], df[pos[j]].v)

C9_Witness ==
    /\ pc = "solve"
    /\ idx = 1
    /\ df[1].id # df[2].id
    /\ Len(data) = 3
    /\ data[1].alpha # data[2].alpha
    /\ data[1].v # data[3].v

\* The row HG1G2_fit stores for an entity when the frame holds the
\* observations of that entity alone, the solver answering as it did.
RowAlone(id) ==
    LET alone == SelectById(df, id)
        b == BasisLoop(alone, 1, EmptyBasis)
    IN FitRow(id, b.fi1, b.fi2, b.fi3, FluxOf(alone), solved[id].op, solved[id].cov)

\* C10: the row of an entity depends on the observations of that entity only:
\* it is the row a run on these observations alone yields, whatever other
\* entities the frame holds, however their rows are interleaved and wherever
\* the entity is processed.
C10_EntityFitIndependent ==
    /\ pc \in {"loop", "solve"} => \A i \in 1..idx : columns[i] = RowAlone(noob[i].id)
    /\ Returned =>
          /\ \A i \in DOMAIN result.model_df :
                result.model_df[i] = RowAlone(result.model_df[i].id)
          /\ result.metadata = pentilla_cache

C10_Witness ==
    /\ pc = "returned"
    /\ Len(result.model_df) = 2
    /\ df[1].id # df[2].id
    /\ df[2].id # df[3].id
    /\ result.model_df[1].R # result.model_df[2].R
    /\ solved[7] = solved[12]

====
